---- MODULE Spec2Model ----
(***************************************************************************)
(* Unit-aware numeric operation dispatcher of Pint (NumPy support).        *)
(*                                                                         *)
(* The NumPy-support notebook (docs/numpy.ipynb) fixes the unit facts      *)
(* (meter, centimeter, kilometer, joule, ...), the declared upcast types,  *)
(* the names of the handled operations and the documented behaviour of the *)
(* overrides.  The stages of the dispatcher, the arbiter's tags and the    *)
(* Operation Specification Table follow the design specification           *)
(* (sections 3, 4 and 7).                                                  *)
(*                                                                         *)
(* One behaviour of Spec is one invocation: either                         *)
(*   dispatch(opName, operands)  or  quantity.convertTo(target).           *)
(* ConfigSpec is the configuration phase that builds the precedence        *)
(* ranking; ConcSpec interleaves several invocations over the frozen       *)
(* configuration.                                                          *)
(***************************************************************************)
EXTENDS Integers, Sequences, FiniteSets, TLC

VARIABLES
    pc,            \* stage of the invocation
    opName,        \* operation name handed to dispatch ("convertTo" for Quantity.to)
    operands,      \* the operands exactly as the caller passed them
    target,        \* target unit of convertTo (the empty unit for dispatch)
    tags,          \* the arbiter's three-way tag of every operand
    spec,          \* the resolved Operation Specification
    refUnit,       \* unit of the primary argument
    argUnits,      \* unit each processed argument contributes to the output
    argIdx,        \* 1-based position of the next argument to process
    mags,          \* bare, pre-converted magnitudes collected so far
    conversions,   \* number of registry conversions performed
    backendCalls,  \* number of invocations of the bare backend operation
    backendArgs,   \* the magnitudes the backend was invoked with
    raw,           \* what the backend returned
    result,        \* what the invocation returned
    error,         \* the failure the invocation raised
    running,       \* identity of the invocation whose stage is executing
    suspended,     \* the other invocations in flight, each with its own state
    ranking,       \* configured precedence ranking: pairs <<a, b>>, a outranks b
    registration   \* outcome of the latest type-rank registration

\* the state of one invocation
local == << pc, opName, operands, target, tags, spec, refUnit, argUnits, argIdx,
            mags, conversions, backendCalls, backendArgs, raw, result, error >>

\* what an invocation only reads: the schedule and the configuration
env == << running, suspended, ranking, registration >>

vars == << local, env >>

-----------------------------------------------------------------------------
(* Bounds of the model.                                                    *)

\* longest sequence handed to a variadic operation (stack)
MaxSeq == 3

\* number of wrapper types whose ranks are registered in one configuration
MaxTypes == 4

\* number of invocations in flight at the same time
MaxInvocations == 2

-----------------------------------------------------------------------------
(* Exact arithmetic for magnitudes and conversion factors.  A number is    *)
(* <<n, d, k, r>> and stands for (n/d) * pi^k * sqrt(r), with d > 0, n/d   *)
(* in lowest terms and r > 0; a rational has k = 0 and r = 1.              *)

Abs(n) == IF n < 0 THEN -n ELSE n

RECURSIVE GCD(_, _)
GCD(a, b) == IF b = 0 THEN a ELSE GCD(b, a % b)

\* the number x with n/d in lowest terms, by the common divisor g
Reduced(x, g) ==
    IF x[1] = 0 THEN << 0, 1, 0, 1 >> ELSE << x[1] \div g, x[2] \div g, x[3], x[4] >>

Norm(r) ==
    CHOOSE q \in { Reduced(x, GCD(Abs(x[1]), x[2])) :
                      x \in { IF r[2] < 0 THEN << -r[1], -r[2], r[3], r[4] >> ELSE r } } : TRUE

R(n) == << n, 1, 0, 1 >>

\* the rational n/d
Ratio(n, d) == Norm(<< n, d, 0, 1 >>)

RMul(a, b) ==
    CHOOSE q \in { Norm(<< x[1] * y[1], x[2] * y[2], x[3] + y[3], x[4] * y[4] >>) :
                      x \in { a }, y \in { b } } : TRUE

\* x / (y * sqrt(r)) = x * sqrt(r) / (y * r)
RDiv(a, b) ==
    CHOOSE q \in { Norm(<< x[1] * y[2], x[2] * y[1] * y[4], x[3] - y[3], x[4] * y[4] >>) :
                      x \in { a }, y \in { b } } : TRUE

\* sum of two numbers with the same power of pi and the same root
RAdd(a, b) ==
    CHOOSE q \in { CASE x[3] = y[3] /\ x[4] = y[4] ->
                          Norm(<< x[1] * y[2] + y[1] * x[2], x[2] * y[2], x[3], x[4] >>) :
                      x \in { a }, y \in { b } } : TRUE

\* order of two numbers with the same power of pi and the same root
RLess(a, b) == CASE a[3] = b[3] /\ a[4] = b[4] -> a[1] * b[2] < b[1] * a[2]

RECURSIVE RPow(_, _)
RPow(a, k) ==
    IF k = 0 THEN R(1)
    ELSE IF k > 0 THEN RMul(a, RPow(a, k - 1))
    ELSE RDiv(RPow(a, k + 1), a)

\* largest r in lo..hi with r*r <= n  (lo*lo <= n < (hi+1)*(hi+1))
RECURSIVE SqrtSearch(_, _, _)
SqrtSearch(n, lo, hi) ==
    IF lo >= hi THEN lo
    ELSE CHOOSE r \in { IF mid * mid <= n THEN SqrtSearch(n, mid, hi)
                        ELSE SqrtSearch(n, lo, mid - 1) :
                            mid \in { (lo + hi + 1) \div 2 } } : TRUE

ISqrt(n) == SqrtSearch(n, 0, 46340)

-----------------------------------------------------------------------------
(* The unit registry (external collaborator): units are products of named  *)
(* units with integer exponents; each named unit has a dimensional         *)
(* signature over <<length, mass, time>> and a factor to the base units.   *)

UnitNames == { "meter", "centimeter", "kilometer", "second", "joule", "radian", "degree" }

BaseDims == 1..3

ZeroSignature == << 0, 0, 0 >>

NamedSignature(n) ==
    CASE n = "meter"      -> << 1, 0, 0 >>
      [] n = "centimeter" -> << 1, 0, 0 >>
      [] n = "kilometer"  -> << 1, 0, 0 >>
      [] n = "second"     -> << 0, 0, 1 >>
      [] n = "joule"      -> << 2, 1, -2 >>
      [] n = "radian"     -> << 0, 0, 0 >>
      [] n = "degree"     -> << 0, 0, 0 >>

\* factor to the base units; degree is pi/180 radian
NamedFactor(n) ==
    CASE n = "meter"      -> R(1)
      [] n = "centimeter" -> Ratio(1, 100)
      [] n = "kilometer"  -> R(1000)
      [] n = "second"     -> R(1)
      [] n = "joule"      -> R(1)
      [] n = "radian"     -> R(1)
      [] n = "degree"     -> << 1, 180, 1, 1 >>

\* the unit with no named unit in it: "dimensionless"
Dimensionless == [ n \in UnitNames |-> 0 ]

U(name) == [ n \in UnitNames |-> IF n = name THEN 1 ELSE 0 ]

UnitMul(u, v) == [ n \in UnitNames |-> u[n] + v[n] ]

\* the registry's angle unit
AngleUnit == U("radian")

RECURSIVE SumOver(_, _, _)
SumOver(S, u, d) ==
    IF S = {} THEN 0
    ELSE CHOOSE t \in { u[n] * NamedSignature(n)[d] + SumOver(S \ {n}, u, d) :
                            n \in { CHOOSE x \in S : TRUE } } : TRUE

dimensionalSignature(u) == [ d \in BaseDims |-> SumOver(UnitNames, u, d) ]

isDimensionless(u) == dimensionalSignature(u) = ZeroSignature

RECURSIVE ProdOver(_, _)
ProdOver(S, u) ==
    IF S = {} THEN R(1)
    ELSE CHOOSE t \in { RMul(RPow(NamedFactor(n), u[n]), ProdOver(S \ {n}, u)) :
                            n \in { CHOOSE x \in S : TRUE } } : TRUE

\* factor that takes a magnitude in unit u to the base units
Factor(u) == ProdOver(UnitNames, u)

\* (mutant) only tells dimensionless units from the others
Compatible_ZeroOrNot(u, v) ==
    (dimensionalSignature(u) = ZeroSignature) = (dimensionalSignature(v) = ZeroSignature)

Compatible(u, v) == dimensionalSignature(u) = dimensionalSignature(v)

\* (mutant) the converted number is truncated to an integer
ConvertScalar_Truncating(x, fromUnit, toUnit) ==
    LET r == RDiv(RMul(x, Factor(fromUnit)), Factor(toUnit))
    IN  << r[1] \div r[2], 1, r[3], r[4] >>

\* registry conversion of one number
ConvertScalar(x, fromUnit, toUnit) == RDiv(RMul(x, Factor(fromUnit)), Factor(toUnit))

\* (mutant) converts in the wrong direction
convert_Inverted(m, fromUnit, toUnit) ==
    [ i \in 1..Len(m) |-> ConvertScalar(m[i], toUnit, fromUnit) ]

\* registry conversion of a magnitude (elementwise); defined for compatible units
convert(m, fromUnit, toUnit) ==
    [ i \in 1..Len(m) |-> ConvertScalar(m[i], fromUnit, toUnit) ]

-----------------------------------------------------------------------------
(* Quantity: (magnitude, unit).                                            *)

Quantity(m, u) == [ kind |-> "Quantity", mag |-> m, unit |-> u ]

dimensionality(q) == dimensionalSignature(q.unit)

\* the failure raised when a conversion or a signature check fails
IncompatibleDimensions(op, index, fromUnit, toUnit) ==
    [ type     |-> "IncompatibleDimensions",
      op       |-> op,
      index    |-> index,
      fromUnit |-> fromUnit,
      toUnit   |-> toUnit,
      fromSig  |-> dimensionalSignature(fromUnit),
      toSig    |-> dimensionalSignature(toUnit) ]

UnsupportedOperation(op) == [ type |-> "UnsupportedOperation", op |-> op ]

NoError == [ type |-> "none" ]

NoResult == [ kind |-> "none" ]

DeferSignal == [ kind |-> "DeferSignal" ]

\* (mutant) rescales without checking the signatures
convertTo_Unchecked(q, targetUnit) ==
    [ ok |-> TRUE, value |-> Quantity(convert(q.mag, q.unit, targetUnit), targetUnit) ]

\* Quantity.convertTo: a new Quantity in targetUnit, or the failure
convertTo(q, targetUnit) ==
    IF Compatible(q.unit, targetUnit)
    THEN [ ok |-> TRUE,  value |-> Quantity(convert(q.mag, q.unit, targetUnit), targetUnit) ]
    ELSE [ ok |-> FALSE, value |-> Quantity(q.mag, q.unit) ]

-----------------------------------------------------------------------------
(* Type Precedence Arbiter.                                                *)

\* the declared upcast types
UpcastTypes == { "PintArray", "Series", "DataArray", "Dataset", "Variable" }

\* (mutant) every type other than Quantity counts as an upcast type
IsUpcastType_AnyForeignType(t) == t # "Quantity"

IsUpcastType(t) == t \in UpcastTypes

\* three-way tag of one operand
Tag(o) ==
    IF IsUpcastType(o.type) THEN "deferred-to-upcast"
    ELSE IF o.type = "Quantity" THEN "Quantity"
    ELSE "bare-dimensionless-payload"

\* (mutant) handles as soon as a Quantity takes part, upcast operands or not
Arbitrate_IgnoresUpcast(ops) ==
    IF \E i \in 1..Len(ops) : ops[i].type = "Quantity" THEN "handle"
    ELSE IF \E i \in 1..Len(ops) : IsUpcastType(ops[i].type) THEN "defer"
    ELSE "wrap-as-dimensionless"

Arbitrate(ops) ==
    IF \E i \in 1..Len(ops) : IsUpcastType(ops[i].type) THEN "defer"
    ELSE IF \E i \in 1..Len(ops) : ops[i].type = "Quantity" THEN "handle"
    ELSE "wrap-as-dimensionless"

\* in handle mode an operand that is not a Quantity is an implicit
\* dimensionless Quantity
Normalize(o) ==
    IF o.type = "Quantity" THEN Quantity(o.mag, o.unit)
    ELSE Quantity(o.mag, Dimensionless)

-----------------------------------------------------------------------------
(* Operation Specification Table.                                          *)

Specification(roles, variadic, out, exps) ==
    [ roles |-> roles, variadic |-> variadic, out |-> out, exps |-> exps ]

NoSpec == Specification(<< >>, FALSE, "none", << >>)

\* every later argument is converted to the unit of the first; result in that unit
MatchedSameNames ==
    { "add", "subtract", "hypot", "nextafter", "copysign", "append",
      "clip", "intersect1d", "linspace" }

\* the second argument is taken without unit; result in the unit of the first
CopyFirstNames ==
    { "remainder", "mod", "fmod", "ldexp" }

\* one Quantity in, result in its unit
UnarySameNames ==
    { "negative", "absolute", "rint", "conj", "floor", "ceil", "trunc",
      "amax", "amin", "around", "average", "broadcast_to", "compress",
      "copy", "cumsum", "diagonal", "diff", "ediff1d", "expand_dims",
      "fix", "flip", "mean", "median", "moveaxis", "nan_to_num",
      "nancumsum", "nanmax", "nanmean", "nanmedian", "nanmin",
      "nanpercentile", "nanstd", "nansum", "percentile", "ptp", "ravel",
      "reshape", "resize", "rollaxis", "rot90", "round_", "sort",
      "squeeze", "std", "sum", "swapaxes", "tile", "transpose",
      "trim_zeros", "atleast_1d", "atleast_2d", "atleast_3d" }

\* a sequence of Quantities that must share one unit
SequenceNames ==
    { "stack", "concatenate", "hstack", "vstack", "dstack",
      "column_stack", "block" }

\* result unit is the product of the units
ProductNames ==
    { "multiply", "dot", "cross" }

\* result unit is the quotient of the units
QuotientNames ==
    { "divide", "true_divide", "floor_divide" }

\* result unit is the square of the unit
SquareNames ==
    { "square", "var", "nanvar" }

\* result unit is the inverse of the unit
ReciprocalNames ==
    { "reciprocal" }

\* the argument must be dimensionless; dimensionless result
DimensionlessNames ==
    { "exp", "exp2", "log", "log2", "log10", "expm1", "log1p",
      "logaddexp", "logaddexp2", "cumprod", "cumproduct", "nancumprod" }

\* the argument is an angle, converted to radian; dimensionless result
AngleNames ==
    { "sin", "cos", "tan", "sinh", "cosh", "tanh" }

\* the argument must be dimensionless; result in radian
InverseAngleNames ==
    { "arcsin", "arccos", "arctan", "arcsinh", "arccosh", "arctanh" }

\* the second argument is converted to the unit of the first; result in radian
MatchedAngleNames ==
    { "arctan2" }

\* comparison functions: bare booleans
ComparisonNames ==
    { "greater", "greater_equal", "less", "less_equal", "not_equal",
      "equal" }

\* predicates on arguments converted to one unit: bare booleans
MatchedPredicateNames ==
    { "allclose", "isclose", "isin" }

\* predicates on the magnitude alone: bare booleans
PredicateNames ==
    { "isreal", "iscomplex", "isfinite", "isinf", "isnan", "signbit",
      "all", "any" }

\* supported names whose argument roles and result the documentation does not
\* tell; looked up, not dispatched
UndeterminedNames ==
    { "sqrt", "cbrt", "sign", "alen", "argmax", "argmin", "argsort", "count_nonzero",
      "nanargmax", "nanargmin", "ndim", "nonzero", "result_type",
      "shape", "size", "ones_like", "zeros_like", "empty_like", "searchsorted",
      "modf", "frexp" }

\* writes its second argument, converted to the unit of the first, into the
\* first; it has no output
InPlaceNames ==
    { "copyto" }

\* argument roles particular to the operation; not dispatched in this model
CompositeNames ==
    { "where", "full_like", "interp", "einsum", "meshgrid", "trapz",
      "linalg.solve", "gradient", "pad", "insert", "unwrap" }

\* the names documented as supported
HandledNames ==
    UNION { MatchedSameNames, CopyFirstNames, UnarySameNames, SequenceNames, ProductNames,
            QuotientNames, SquareNames, ReciprocalNames, DimensionlessNames,
            AngleNames, InverseAngleNames, MatchedAngleNames, ComparisonNames,
            MatchedPredicateNames, PredicateNames, InPlaceNames, UndeterminedNames,
            CompositeNames }

Matched == << "primary", "matched-to-primary" >>

SpecTable ==
    [ n \in HandledNames |->
        CASE n \in MatchedSameNames  -> Specification(Matched, FALSE, "same-as-primary", << >>)
          [] n \in CopyFirstNames    -> Specification(<< "primary", "unit-free" >>, FALSE,
                                                      "same-as-primary", << >>)
          [] n \in UnarySameNames    -> Specification(<< "primary" >>, FALSE,
                                                      "same-as-primary", << >>)
          [] n \in SequenceNames     -> Specification(Matched, TRUE, "same-as-primary", << >>)
          [] n \in ProductNames      -> Specification(<< "primary", "primary" >>, FALSE,
                                                      "derived-by-multiplication", << 1, 1 >>)
          [] n \in QuotientNames     -> Specification(<< "primary", "primary" >>, FALSE,
                                                      "derived-by-multiplication", << 1, -1 >>)
          [] n \in SquareNames       -> Specification(<< "primary" >>, FALSE,
                                                      "derived-by-multiplication", << 2 >>)
          [] n \in ReciprocalNames   -> Specification(<< "primary" >>, FALSE,
                                                      "derived-by-multiplication", << -1 >>)
          [] n \in DimensionlessNames ->
                 Specification(IF n \in { "logaddexp", "logaddexp2" }
                               THEN << "forced-dimensionless-input",
                                       "forced-dimensionless-input" >>
                               ELSE << "forced-dimensionless-input" >>,
                               FALSE, "forced-dimensionless-input", << >>)
          [] n \in AngleNames        -> Specification(<< "angle-dimensionless-conversion" >>,
                                                      FALSE, "angle-dimensionless-conversion",
                                                      << >>)
          [] n \in InverseAngleNames -> Specification(<< "forced-dimensionless-input" >>, FALSE,
                                                      "radian", << >>)
          [] n \in MatchedAngleNames -> Specification(Matched, FALSE, "radian", << >>)
          [] n \in ComparisonNames   -> Specification(Matched, FALSE, "dimensionless", << >>)
          [] n \in MatchedPredicateNames ->
                 Specification(Matched, FALSE, "dimensionless", << >>)
          [] n \in PredicateNames    -> Specification(<< "unit-free" >>, FALSE, "dimensionless",
                                                      << >>)
          [] n \in InPlaceNames      -> Specification(Matched, FALSE, "none", << >>)
          [] n \in UndeterminedNames -> Specification(<< "operation-specific" >>, TRUE,
                                                      "operation-specific", << >>)
          [] n \in CompositeNames    -> Specification(<< "operation-specific" >>, TRUE,
                                                      "operation-specific", << >>) ]

\* exact-name lookup
Lookup(name) == IF name \in DOMAIN SpecTable THEN SpecTable[name] ELSE NoSpec

\* role of the i-th argument; a variadic specification repeats its last role
RoleOf(s, i) ==
    IF i <= Len(s.roles) THEN s.roles[i] ELSE s.roles[Len(s.roles)]

-----------------------------------------------------------------------------
(* The bare-magnitude backend (external collaborator).  Kernels with an    *)
(* exact rational value are computed; any other kernel is kept as the      *)
(* application of the named operation to the magnitudes it was given.      *)

\* sqrt(a^2 + b^2) for two rationals: sqrt(N) / D with N = (a1*b2)^2 + (b1*a2)^2 and
\* D = a2*b2; the root is taken when N is a square and kept as sqrt(N) otherwise
HypotScalar(a, b) ==
    CHOOSE h \in { IF ISqrt(N) * ISqrt(N) = N
                   THEN Norm(<< ISqrt(N), a[2] * b[2], a[3], 1 >>)
                   ELSE Norm(<< 1, a[2] * b[2], a[3], N >>) :
                       N \in { CASE a[3] = b[3] /\ a[4] = 1 /\ b[4] = 1 ->
                                   a[1] * a[1] * b[2] * b[2] + b[1] * b[1] * a[2] * a[2] } } : TRUE

CopysignScalar(a, b) ==
    IF b[1] < 0 THEN << -Abs(a[1]), a[2], a[3], a[4] >> ELSE << Abs(a[1]), a[2], a[3], a[4] >>

GreaterScalar(a, b) == RLess(b, a)

\* a - b * trunc(a / b), for two rationals
FmodScalar(a, b) ==
    CHOOSE f \in { RAdd(a, RMul(b, R(IF t < 0 THEN Abs(t) \div Abs(b[1] * a[2])
                                     ELSE -(t \div Abs(b[1] * a[2]))))) :
                       t \in { IF b[1] < 0 THEN -(a[1] * b[2]) ELSE a[1] * b[2] } } : TRUE

RECURSIVE SumFrom(_, _)
SumFrom(m, i) == IF i = Len(m) THEN m[i] ELSE RAdd(m[i], SumFrom(m, i + 1))

Mean(m) == RDiv(SumFrom(m, 1), R(Len(m)))

Backend(op, args) ==
    CASE op = "hypot"    -> [ i \in 1..Len(args[1]) |-> HypotScalar(args[1][i], args[2][i]) ]
      [] op = "add"      -> [ i \in 1..Len(args[1]) |-> RAdd(args[1][i], args[2][i]) ]
      [] op = "copysign" ->
             [ i \in 1..Len(args[1]) |-> CopysignScalar(args[1][i], args[2][i]) ]
      [] op = "multiply" -> [ i \in 1..Len(args[1]) |-> RMul(args[1][i], args[2][i]) ]
      [] op = "divide"   -> [ i \in 1..Len(args[1]) |-> RDiv(args[1][i], args[2][i]) ]
      [] op = "greater"  -> [ i \in 1..Len(args[1]) |-> GreaterScalar(args[1][i], args[2][i]) ]
      [] op = "fmod"     -> [ i \in 1..Len(args[1]) |-> FmodScalar(args[1][i], args[2][i]) ]
      [] op = "mean"     -> Mean(args[1])
      [] op = "isnan"    -> [ i \in 1..Len(args[1]) |-> FALSE ]
      [] op = "copyto"   -> args[2]
      [] op = "stack"    -> args
      [] OTHER           -> [ fn |-> op, args |-> args ]

-----------------------------------------------------------------------------
(* Output-unit derivation.                                                 *)

UnitPow(u, k) == [ n \in UnitNames |-> u[n] * k ]

\* (mutant) every input unit is multiplied in, quotients included
RECURSIVE DerivedUnit_AlwaysProduct(_, _, _)
DerivedUnit_AlwaysProduct(units, exps, i) ==
    IF i > Len(units) THEN Dimensionless
    ELSE UnitMul(units[i], DerivedUnit_AlwaysProduct(units, exps, i + 1))

RECURSIVE DerivedUnit(_, _, _)
DerivedUnit(units, exps, i) ==
    IF i > Len(units) THEN Dimensionless
    ELSE UnitMul(UnitPow(units[i], exps[i]), DerivedUnit(units, exps, i + 1))

\* (mutant) a predicate's result is wrapped as a dimensionless Quantity
Wrap_PredicateAsQuantity(s, value, ref, units) ==
    CASE s.out = "same-as-primary"            -> Quantity(value, ref)
      [] s.out = "dimensionless"              -> Quantity(value, Dimensionless)
      [] s.out = "derived-by-multiplication"  -> Quantity(value, DerivedUnit(units, s.exps, 1))
      [] s.out = "forced-dimensionless-input" -> Quantity(value, Dimensionless)
      [] s.out = "angle-dimensionless-conversion" -> Quantity(value, Dimensionless)
      [] s.out = "radian"                     -> Quantity(value, AngleUnit)

Wrap(s, value, ref, units) ==
    CASE s.out = "same-as-primary"            -> Quantity(value, ref)
      [] s.out = "dimensionless"              -> [ kind |-> "bare", mag |-> value ]
      [] s.out = "derived-by-multiplication"  -> Quantity(value, DerivedUnit(units, s.exps, 1))
      [] s.out = "forced-dimensionless-input" -> Quantity(value, Dimensionless)
      [] s.out = "angle-dimensionless-conversion" -> Quantity(value, Dimensionless)
      [] s.out = "radian"                     -> Quantity(value, AngleUnit)

\* what the invocation hands back: the wrapped result, or nothing when the
\* operation has no output
Output(s, value, ref, units) ==
    IF s.out = "none" THEN NoResult ELSE Wrap(s, value, ref, units)

-----------------------------------------------------------------------------
(* Processing of one argument according to its role.                       *)
(* Yields [ok, mag, unit, ref, converted, from, to].                       *)

ArgOutcome(ok, m, u, ref, converted, fromUnit, toUnit) ==
    [ ok |-> ok, mag |-> m, unit |-> u, ref |-> ref, converted |-> converted,
      fromUnit |-> fromUnit, toUnit |-> toUnit ]

\* (mutant) the forced-dimensionless role gates on nothing: it strips the unit
ProcessRole_NoGate(role, q, ref, first) ==
    CASE role = "unit-free" ->
            ArgOutcome(TRUE, q.mag, Dimensionless, ref, 0, q.unit, q.unit)
      [] role = "primary" ->
            ArgOutcome(TRUE, q.mag, q.unit, IF first THEN q.unit ELSE ref, 0, q.unit, q.unit)
      [] role = "matched-to-primary" ->
            LET r == convertTo(q, ref)
            IN  ArgOutcome(r.ok, r.value.mag, ref, ref, 1, q.unit, ref)
      [] role = "forced-dimensionless-input" ->
            ArgOutcome(TRUE, q.mag, Dimensionless, ref, 0, q.unit, Dimensionless)
      [] role = "angle-dimensionless-conversion" ->
            LET r == convertTo(q, AngleUnit)
            IN  ArgOutcome(r.ok, r.value.mag, Dimensionless, ref, 1, q.unit, AngleUnit)

\* (mutant) the angle role checks the unit but hands the magnitude over as given
ProcessRole_AngleUnconverted(role, q, ref, first) ==
    CASE role = "unit-free" ->
            ArgOutcome(TRUE, q.mag, Dimensionless, ref, 0, q.unit, q.unit)
      [] role = "primary" ->
            ArgOutcome(TRUE, q.mag, q.unit, IF first THEN q.unit ELSE ref, 0, q.unit, q.unit)
      [] role = "matched-to-primary" ->
            LET r == convertTo(q, ref)
            IN  ArgOutcome(r.ok, r.value.mag, ref, ref, 1, q.unit, ref)
      [] role = "forced-dimensionless-input" ->
            IF isDimensionless(q.unit)
            THEN ArgOutcome(TRUE, convert(q.mag, q.unit, Dimensionless), Dimensionless,
                            ref, 1, q.unit, Dimensionless)
            ELSE ArgOutcome(FALSE, q.mag, q.unit, ref, 0, q.unit, Dimensionless)
      [] role = "angle-dimensionless-conversion" ->
            LET r == convertTo(q, AngleUnit)
            IN  ArgOutcome(r.ok, q.mag, Dimensionless, ref, 0, q.unit, AngleUnit)

ProcessRole(role, q, ref, first) ==
    CASE role = "unit-free" ->
            ArgOutcome(TRUE, q.mag, Dimensionless, ref, 0, q.unit, q.unit)
      [] role = "primary" ->
            ArgOutcome(TRUE, q.mag, q.unit, IF first THEN q.unit ELSE ref, 0, q.unit, q.unit)
      [] role = "matched-to-primary" ->
            LET r == convertTo(q, ref)
            IN  ArgOutcome(r.ok, r.value.mag, ref, ref, 1, q.unit, ref)
      [] role = "forced-dimensionless-input" ->
            IF isDimensionless(q.unit)
            THEN ArgOutcome(TRUE, convert(q.mag, q.unit, Dimensionless), Dimensionless,
                            ref, 1, q.unit, Dimensionless)
            ELSE ArgOutcome(FALSE, q.mag, q.unit, ref, 0, q.unit, Dimensionless)
      [] role = "angle-dimensionless-conversion" ->
            LET r == convertTo(q, AngleUnit)
            IN  ArgOutcome(r.ok, r.value.mag, Dimensionless, ref, 1, q.unit, AngleUnit)

\* (mutant) a bare operand is passed through as if it had the primary's unit
ProcessArg_BareAdoptsUnit(role, o, ref, first) ==
    IF o.type = "Quantity" \/ first
    THEN ProcessRole(role, Normalize(o), ref, first)
    ELSE ArgOutcome(TRUE, o.mag, ref, ref, 0, ref, ref)

\* an operand is normalized, then handled according to its role
ProcessArg(role, o, ref, first) == ProcessRole(role, Normalize(o), ref, first)

\* (mutant) reports the 1-based position
ErrorIndex_OneBased(i) == i

\* 0-based position reported for the argument at 1-based position i
ErrorIndex(i) == i - 1

-----------------------------------------------------------------------------
(* Inputs.                                                                 *)

\* magnitudes: the payload type a Quantity wraps and the numbers in it
Payloads == { [ payload |-> "ndarray", mag |-> << R(3), R(4) >> ],
              [ payload |-> "ndarray", mag |-> << R(400), R(300) >> ],
              [ payload |-> "COO",     mag |-> << R(3), R(4) >> ] }

OperandUnits == { U("meter"), U("centimeter"), U("second"), U("radian"), Dimensionless }

TargetUnits == OperandUnits \cup { U("kilometer"), U("joule"), U("degree") }

Quantities == { [ type |-> "Quantity", payload |-> p.payload, mag |-> p.mag, unit |-> u ] :
                    p \in Payloads, u \in OperandUnits }

\* operands that are not Quantities: downcast (wrappable) and upcast types
Operands ==
    Quantities
    \cup { [ type |-> p.payload, payload |-> p.payload, mag |-> p.mag ] :
               p \in { x \in Payloads : x.payload = "ndarray" } }
    \cup { [ type |-> "DataArray", payload |-> "ndarray", mag |-> << R(3), R(4) >> ] }

\* the operation names dispatched here: some of each kind of Specification, and
\* "histogram", which has none
OpNames ==
    { "hypot", "add", "copysign", "fmod", "multiply", "divide", "greater", "exp", "sin",
      "arccos", "stack", "mean", "isnan", "copyto", "histogram" }

\* methods of a Quantity that write into it; what they hand back is not modelled
MethodNames == { "Quantity.fill", "Quantity.put", "Quantity.sort" }

Arities(name) ==
    IF name \in HandledNames
    THEN IF SpecTable[name].variadic THEN 1..MaxSeq ELSE { Len(SpecTable[name].roles) }
    ELSE 1..2

\* elements of the sequence handed to a variadic operation
Elements == { o \in Operands : o.payload = "ndarray" /\ o.mag = << R(3), R(4) >> }

\* angles given in degrees, for the operations that expect angles
DegreeQuantities ==
    { [ type |-> "Quantity", payload |-> p.payload, mag |-> p.mag, unit |-> U("degree") ] :
          p \in Payloads }

\* the ratio of two lengths, legs2 / hyps, in centimeter / meter: the argument
\* given to the operations that expect a number in [-1, 1]
RatioQuantities ==
    { [ type |-> "Quantity", payload |-> "ndarray", mag |-> << R(80), R(60) >>,
        unit |-> UnitMul(U("centimeter"), UnitPow(U("meter"), -1)) ] }

OperandPool(name) ==
    IF name \in HandledNames /\ SpecTable[name].variadic THEN Elements
    ELSE IF name \in AngleNames THEN Operands \cup DegreeQuantities
    ELSE IF name \in InverseAngleNames THEN Operands \cup RatioQuantities
    ELSE IF name \in InPlaceNames THEN { o \in Operands : o.type # "ndarray" }
    ELSE Operands

\* dispatch is entered from a Quantity: at least one operand is a Quantity
OperandLists(name) ==
    { ops \in UNION { [ 1..n -> OperandPool(name) ] : n \in Arities(name) } :
        \E i \in 1..Len(ops) : ops[i].type = "Quantity" }

\* a method is called on a Quantity; fill takes a value in the unit of the
\* Quantity, put a value of any type that is not an upcast type, sort nothing
MethodOperands(name) ==
    CASE name = "Quantity.fill" ->
             { ops \in { << q, v >> : q \in Quantities, v \in Quantities } :
                 ops[2].unit = ops[1].unit }
      [] name = "Quantity.put"  ->
             { << q, v >> : q \in Quantities, v \in { o \in Operands : ~IsUpcastType(o.type) } }
      [] name = "Quantity.sort" -> { << q >> : q \in Quantities }

-----------------------------------------------------------------------------
(* Precedence ranking of the wrapper types (configuration surface).        *)

\* (mutant) the hierarchy with one pair drawn upside down
HierarchyEdges_WithBackEdge ==
    { << "Dask array", "NumPy ndarray" >>,
      << "Pint Quantity", "Dask array" >>,
      << "xarray Dataset/DataArray/Variable", "Pint Quantity" >>,
      << "NumPy ndarray", "xarray Dataset/DataArray/Variable" >> }

\* the documented hierarchy: the pair <<a, b>> says that a wraps (outranks) b
HierarchyEdges ==
    { << "Dask array", "NumPy ndarray" >>,
      << "Dask array", "CuPy ndarray" >>,
      << "Dask array", "Sparse COO" >>,
      << "Dask array", "NumPy masked array" >>,
      << "CuPy ndarray", "NumPy ndarray" >>,
      << "Sparse COO", "NumPy ndarray" >>,
      << "NumPy masked array", "NumPy ndarray" >>,
      << "Jax array", "NumPy ndarray" >>,
      << "Pint Quantity", "Dask array" >>,
      << "Pint Quantity", "NumPy ndarray" >>,
      << "Pint Quantity", "CuPy ndarray" >>,
      << "Pint Quantity", "Sparse COO" >>,
      << "Pint Quantity", "NumPy masked array" >>,
      << "xarray Dataset/DataArray/Variable", "Dask array" >>,
      << "xarray Dataset/DataArray/Variable", "CuPy ndarray" >>,
      << "xarray Dataset/DataArray/Variable", "Sparse COO" >>,
      << "xarray Dataset/DataArray/Variable", "NumPy ndarray" >>,
      << "xarray Dataset/DataArray/Variable", "NumPy masked array" >>,
      << "xarray Dataset/DataArray/Variable", "Pint Quantity" >>,
      << "xarray Dataset/DataArray/Variable", "Jax array" >> }

\* the wrapper types of the hierarchy, in the order their ranks are registered
HierarchyTypes ==
    << "xarray Dataset/DataArray/Variable", "Pint Quantity", "Dask array",
       "NumPy ndarray", "Sparse COO", "CuPy ndarray", "NumPy masked array",
       "Jax array" >>

RankedTypes == { HierarchyTypes[i] : i \in 1..MaxTypes }

\* one round of chaining: a outranks b and b outranks c give a outranks c
Compose(E) ==
    E \cup { << p[1][1], p[2][2] >> : p \in { q \in E \X E : q[1][2] = q[2][1] } }

\* "outranks": the transitive closure of the registered pairs
RECURSIVE Outranks(_)
Outranks(E) == IF Compose(E) = E THEN E ELSE Outranks(Compose(E))

\* registering "a outranks b" closes a cycle when b already outranks a
WouldCycle(E, a, b) == a = b \/ << b, a >> \in Outranks(E)

\* registration of one rank; append-only, validated for acyclicity
RegisterRank(a, b) ==
    /\ pc = "Configuring"
    /\ IF WouldCycle(ranking, a, b)
       THEN /\ ranking' = ranking
            /\ registration' = "rejected"
       ELSE /\ ranking' = ranking \cup { << a, b >> }
            /\ registration' = "accepted"
    /\ UNCHANGED << local, running, suspended >>

-----------------------------------------------------------------------------
(* The invocation.                                                         *)

Init ==
    /\ \/ /\ opName \in OpNames
          /\ operands \in OperandLists(opName)
          /\ target = Dimensionless
          /\ pc = "Arbitrating"
       \/ /\ opName = "convertTo"
          /\ operands \in { << q >> : q \in Quantities }
          /\ target \in TargetUnits
          /\ pc = "ConvertTo"
       \/ /\ opName \in MethodNames
          /\ operands \in MethodOperands(opName)
          /\ target = Dimensionless
          /\ pc = "MethodCall"
    /\ tags = << >>
    /\ spec = NoSpec
    /\ refUnit = Dimensionless
    /\ argUnits = << >>
    /\ argIdx = 1
    /\ mags = << >>
    /\ conversions = 0
    /\ backendCalls = 0
    /\ backendArgs = << >>
    /\ raw = << >>
    /\ result = NoResult
    /\ error = NoError
    /\ running = 1
    /\ suspended = << >>
    /\ ranking = HierarchyEdges
    /\ registration = "none"

\* (mutant) the name is looked up before the Arbiter is asked
ArbitrateStep_LookupFirst ==
    /\ pc = "Arbitrating"
    /\ IF opName \notin DOMAIN SpecTable
       THEN /\ pc' = "Failed"
            /\ error' = UnsupportedOperation(opName)
            /\ result' = result
            /\ tags' = tags
       ELSE IF Arbitrate(operands) = "defer"
       THEN /\ pc' = "Deferred"
            /\ result' = DeferSignal
            /\ tags' = tags
            /\ error' = error
       ELSE /\ pc' = "ResolvingSpec"
            /\ result' = result
            /\ tags' = [ i \in 1..Len(operands) |-> Tag(operands[i]) ]
            /\ error' = error
    /\ UNCHANGED << env, opName, operands, target, spec, refUnit, argUnits, argIdx, mags,
                    conversions, backendCalls, backendArgs, raw >>

\* step 1: ask the Arbiter; defer immediately, or tag the operands
ArbitrateStep ==
    /\ pc = "Arbitrating"
    /\ IF Arbitrate(operands) = "defer"
       THEN /\ pc' = "Deferred"
            /\ result' = DeferSignal
            /\ tags' = tags
       ELSE /\ pc' = "ResolvingSpec"
            /\ result' = result
            /\ tags' = [ i \in 1..Len(operands) |-> Tag(operands[i]) ]
    /\ UNCHANGED << env, opName, operands, target, spec, refUnit, argUnits, argIdx, mags,
                    conversions, backendCalls, backendArgs, raw, error >>

\* (mutant) an unknown name falls through: units stripped, bare backend run
ResolveSpec_FallThrough ==
    /\ pc = "ResolvingSpec"
    /\ IF opName \in DOMAIN SpecTable
       THEN /\ spec' = Lookup(opName)
            /\ pc' = "Converting"
            /\ UNCHANGED << backendCalls, backendArgs, raw, result >>
       ELSE /\ spec' = spec
            /\ pc' = "Done"
            /\ backendCalls' = backendCalls + 1
            /\ backendArgs' = [ i \in 1..Len(operands) |-> operands[i].mag ]
            /\ raw' = Backend(opName, backendArgs')
            /\ result' = [ kind |-> "bare", mag |-> raw' ]
    /\ UNCHANGED << env, opName, operands, target, tags, refUnit, argUnits, argIdx, mags,
                    conversions, error >>

\* step 2: look up the Specification; absent means UnsupportedOperation
ResolveSpec ==
    /\ pc = "ResolvingSpec"
    /\ IF opName \in DOMAIN SpecTable
       THEN /\ spec' = Lookup(opName)
            /\ pc' = "Converting"
            /\ error' = error
       ELSE /\ spec' = spec
            /\ pc' = "Failed"
            /\ error' = UnsupportedOperation(opName)
    /\ UNCHANGED << env, opName, operands, target, tags, refUnit, argUnits, argIdx, mags,
                    conversions, backendCalls, backendArgs, raw, result >>

\* (mutant) an argument that cannot be converted makes the invocation start over
ConvertArg_RetryOnFailure ==
    /\ pc = "Converting"
    /\ argIdx <= Len(operands)
    /\ LET r == ProcessArg(RoleOf(spec, argIdx), operands[argIdx], refUnit, argIdx = 1)
       IN  IF r.ok
           THEN /\ mags' = Append(mags, r.mag)
                /\ argUnits' = Append(argUnits, r.unit)
                /\ refUnit' = r.ref
                /\ conversions' = conversions + r.converted
                /\ argIdx' = argIdx + 1
                /\ pc' = IF argIdx = Len(operands) THEN "Computing" ELSE "Converting"
           ELSE /\ pc' = "Arbitrating"
                /\ mags' = << >>
                /\ argUnits' = << >>
                /\ refUnit' = Dimensionless
                /\ conversions' = 0
                /\ argIdx' = 1
    /\ UNCHANGED << env, opName, operands, target, tags, spec, backendCalls, backendArgs,
                    raw, result, error >>

\* (mutant) an argument that cannot be converted is passed on as it is
ConvertArg_SkipsFailures ==
    /\ pc = "Converting"
    /\ argIdx <= Len(operands)
    /\ LET r == ProcessArg(RoleOf(spec, argIdx), operands[argIdx], refUnit, argIdx = 1)
       IN  /\ mags' = Append(mags, r.mag)
           /\ argUnits' = Append(argUnits, r.unit)
           /\ refUnit' = r.ref
           /\ conversions' = conversions + r.converted
           /\ argIdx' = argIdx + 1
           /\ pc' = IF argIdx = Len(operands) THEN "Computing" ELSE "Converting"
           /\ error' = IF r.ok THEN error
                       ELSE IncompatibleDimensions(opName, ErrorIndex(argIdx),
                                                   r.fromUnit, r.toUnit)
    /\ UNCHANGED << env, opName, operands, target, tags, spec, backendCalls, backendArgs,
                    raw, result >>

\* step 3 (and 6): process the next argument according to its role
ConvertArg ==
    /\ pc = "Converting"
    /\ argIdx <= Len(operands)
    /\ LET r == ProcessArg(RoleOf(spec, argIdx), operands[argIdx], refUnit, argIdx = 1)
       IN  IF r.ok
           THEN /\ mags' = Append(mags, r.mag)
                /\ argUnits' = Append(argUnits, r.unit)
                /\ refUnit' = r.ref
                /\ conversions' = conversions + r.converted
                /\ argIdx' = argIdx + 1
                /\ pc' = IF argIdx = Len(operands) THEN "Computing" ELSE "Converting"
                /\ error' = error
           ELSE /\ pc' = "Failed"
                /\ error' = IncompatibleDimensions(opName, ErrorIndex(argIdx), r.fromUnit, r.toUnit)
                /\ UNCHANGED << mags, argUnits, refUnit, conversions, argIdx >>
    /\ UNCHANGED << env, opName, operands, target, tags, spec, backendCalls, backendArgs,
                    raw, result >>

\* step 4: invoke the bare backend operation on the collected magnitudes; the
\* backend operation of copyto writes what it is given as source into the
\* magnitude of the destination, the first operand
Compute ==
    /\ pc = "Computing"
    /\ backendCalls' = backendCalls + 1
    /\ backendArgs' = mags
    /\ raw' = Backend(opName, mags)
    /\ operands' = IF opName \in InPlaceNames THEN [ operands EXCEPT ![1].mag = raw' ]
                   ELSE operands
    /\ pc' = "Wrapping"
    /\ UNCHANGED << env, opName, target, tags, spec, refUnit, argUnits, argIdx,
                    mags, conversions, result, error >>

\* step 5: derive the output unit and re-wrap
WrapStep ==
    /\ pc = "Wrapping"
    /\ result' = Output(spec, raw, refUnit, argUnits)
    /\ pc' = "Done"
    /\ UNCHANGED << env, opName, operands, target, tags, spec, refUnit, argUnits, argIdx,
                    mags, conversions, backendCalls, backendArgs, raw, error >>

\* the terminal stages of an invocation
Terminal == { "Done", "Failed", "Deferred" }

\* (mutant) the conversion is done in place, on the Quantity itself
ConvertToStep_InPlace ==
    /\ pc = "ConvertTo"
    /\ LET q == Normalize(operands[1])
           r == convertTo(q, target)
       IN  IF r.ok
           THEN /\ result' = r.value
                /\ operands' = << [ operands[1] EXCEPT !.mag = r.value.mag,
                                                       !.unit = r.value.unit ] >>
                /\ conversions' = conversions + 1
                /\ pc' = "Done"
                /\ error' = error
           ELSE /\ result' = result
                /\ operands' = operands
                /\ conversions' = conversions
                /\ pc' = "Failed"
                /\ error' = IncompatibleDimensions(opName, 0, q.unit, target)
    /\ UNCHANGED << env, opName, target, tags, spec, refUnit, argUnits, argIdx,
                    mags, backendCalls, backendArgs, raw >>

\* quantity.convertTo(target)
ConvertToStep ==
    /\ pc = "ConvertTo"
    /\ LET q == Normalize(operands[1])
           r == convertTo(q, target)
       IN  IF r.ok
           THEN /\ result' = r.value
                /\ conversions' = conversions + 1
                /\ pc' = "Done"
                /\ error' = error
           ELSE /\ result' = result
                /\ conversions' = conversions
                /\ pc' = "Failed"
                /\ error' = IncompatibleDimensions(opName, 0, q.unit, target)
    /\ UNCHANGED << env, opName, operands, target, tags, spec, refUnit, argUnits, argIdx,
                    mags, backendCalls, backendArgs, raw >>

\* the magnitude in ascending order
RECURSIVE Insert(_, _)
Insert(x, m) ==
    IF m = << >> THEN << x >>
    ELSE IF RLess(x, Head(m)) THEN << x >> \o m
    ELSE << Head(m) >> \o Insert(x, Tail(m))

RECURSIVE Sorted(_)
Sorted(m) == IF m = << >> THEN << >> ELSE Insert(Head(m), Sorted(Tail(m)))

\* quantity.fill(value), the value being in the unit of the Quantity: every
\* element of the magnitude becomes the magnitude of the value
FillStep ==
    /\ pc = "MethodCall"
    /\ opName = "Quantity.fill"
    /\ operands[2].unit = operands[1].unit
    /\ operands' = [ operands EXCEPT ![1].mag = [ i \in 1..Len(operands[1].mag) |->
                                                    operands[2].mag[1] ] ]
    /\ pc' = "Done"
    /\ UNCHANGED << env, opName, target, tags, spec, refUnit, argUnits, argIdx, mags,
                    conversions, backendCalls, backendArgs, raw, result, error >>

\* quantity.put(index, values): the values are converted to the unit of the
\* Quantity (a value that is no Quantity counts as dimensionless) and the first
\* of them is written at the index
PutStep ==
    /\ pc = "MethodCall"
    /\ opName = "Quantity.put"
    /\ LET r == convertTo(Normalize(operands[2]), operands[1].unit)
       IN  IF r.ok
           THEN /\ \E index \in 1..Len(operands[1].mag) :
                      operands' = [ operands EXCEPT ![1].mag[index] = r.value.mag[1] ]
                /\ conversions' = conversions + 1
                /\ pc' = "Done"
                /\ error' = error
           ELSE /\ operands' = operands
                /\ conversions' = conversions
                /\ pc' = "Failed"
                /\ error' = IncompatibleDimensions(opName, 1, Normalize(operands[2]).unit,
                                                   operands[1].unit)
    /\ UNCHANGED << env, opName, target, tags, spec, refUnit, argUnits, argIdx, mags,
                    backendCalls, backendArgs, raw, result >>

\* quantity.sort(): the magnitude is put in ascending order, in place
SortStep ==
    /\ pc = "MethodCall"
    /\ opName = "Quantity.sort"
    /\ operands' = [ operands EXCEPT ![1].mag = Sorted(operands[1].mag) ]
    /\ pc' = "Done"
    /\ UNCHANGED << env, opName, target, tags, spec, refUnit, argUnits, argIdx, mags,
                    conversions, backendCalls, backendArgs, raw, result, error >>

Next ==
    \/ ArbitrateStep
    \/ ResolveSpec
    \/ ConvertArg
    \/ Compute
    \/ WrapStep
    \/ ConvertToStep
    \/ FillStep
    \/ PutStep
    \/ SortStep

Spec == Init /\ [][Next]_vars

-----------------------------------------------------------------------------
(* Configuration phase: ranks are registered one at a time, before any     *)
(* invocation runs.                                                        *)

ConfigInit ==
    /\ pc = "Configuring"
    /\ opName = "none"
    /\ operands = << >>
    /\ target = Dimensionless
    /\ tags = << >>
    /\ spec = NoSpec
    /\ refUnit = Dimensionless
    /\ argUnits = << >>
    /\ argIdx = 1
    /\ mags = << >>
    /\ conversions = 0
    /\ backendCalls = 0
    /\ backendArgs = << >>
    /\ raw = << >>
    /\ result = NoResult
    /\ error = NoError
    /\ running = 1
    /\ suspended = << >>
    /\ ranking = { }
    /\ registration = "none"

ConfigNext == \E a \in RankedTypes, b \in RankedTypes : RegisterRank(a, b)

ConfigSpec == ConfigInit /\ [][ConfigNext]_vars

-----------------------------------------------------------------------------
(* Concurrent invocations over the frozen configuration.  Every invocation *)
(* owns its state; the invocation that is running holds it in the          *)
(* variables of the invocation, the others are suspended with theirs.      *)

\* the state of the running invocation, as it is saved when it is suspended
Context ==
    [ pc |-> pc, opName |-> opName, operands |-> operands, target |-> target,
      tags |-> tags, spec |-> spec, refUnit |-> refUnit, argUnits |-> argUnits,
      argIdx |-> argIdx, mags |-> mags, conversions |-> conversions,
      backendCalls |-> backendCalls, backendArgs |-> backendArgs, raw |-> raw,
      result |-> result, error |-> error ]

\* the state an invocation starts in
StartContext(name, ops, tgt) ==
    [ pc |-> IF name = "convertTo" THEN "ConvertTo" ELSE "Arbitrating",
      opName |-> name, operands |-> ops, target |-> tgt,
      tags |-> << >>, spec |-> NoSpec, refUnit |-> Dimensionless, argUnits |-> << >>,
      argIdx |-> 1, mags |-> << >>, conversions |-> 0,
      backendCalls |-> 0, backendArgs |-> << >>, raw |-> << >>,
      result |-> NoResult, error |-> NoError ]

MeterLegs == [ type |-> "Quantity", payload |-> "ndarray", mag |-> << R(3), R(4) >>,
               unit |-> U("meter") ]

CentimeterLegs == [ type |-> "Quantity", payload |-> "ndarray",
                    mag |-> << R(400), R(300) >>, unit |-> U("centimeter") ]

Seconds == [ type |-> "Quantity", payload |-> "COO", mag |-> << R(3), R(4) >>,
             unit |-> U("second") ]

DataArray == [ type |-> "DataArray", payload |-> "ndarray", mag |-> << R(3), R(4) >> ]

\* the invocations that run concurrently
ConcurrentCalls ==
    { StartContext("hypot", << MeterLegs, CentimeterLegs >>, Dimensionless),
      StartContext("greater", << CentimeterLegs, MeterLegs >>, Dimensionless),
      StartContext("add", << Seconds, MeterLegs >>, Dimensionless),
      StartContext("multiply", << MeterLegs, DataArray >>, Dimensionless),
      StartContext("histogram", << Seconds >>, Dimensionless),
      StartContext("convertTo", << MeterLegs >>, U("kilometer")) }

ConcInit ==
    /\ \E c \in ConcurrentCalls :
          /\ pc = c.pc
          /\ opName = c.opName
          /\ operands = c.operands
          /\ target = c.target
          /\ tags = c.tags
          /\ spec = c.spec
          /\ refUnit = c.refUnit
          /\ argUnits = c.argUnits
          /\ argIdx = c.argIdx
          /\ mags = c.mags
          /\ conversions = c.conversions
          /\ backendCalls = c.backendCalls
          /\ backendArgs = c.backendArgs
          /\ raw = c.raw
          /\ result = c.result
          /\ error = c.error
    /\ running = 1
    /\ suspended \in [ 2..MaxInvocations -> ConcurrentCalls ]
    /\ ranking = HierarchyEdges
    /\ registration = "none"

\* (mutant) the reference unit is kept in a slot all invocations share
Switch_SharedRefUnit(p) ==
    /\ p \in DOMAIN suspended
    /\ suspended[p].pc \notin Terminal
    /\ running' = p
    /\ suspended' = [ q \in (DOMAIN suspended \ { p }) \cup { running } |->
                         IF q = running THEN Context ELSE suspended[q] ]
    /\ pc' = suspended[p].pc
    /\ opName' = suspended[p].opName
    /\ operands' = suspended[p].operands
    /\ target' = suspended[p].target
    /\ tags' = suspended[p].tags
    /\ spec' = suspended[p].spec
    /\ refUnit' = refUnit
    /\ argUnits' = suspended[p].argUnits
    /\ argIdx' = suspended[p].argIdx
    /\ mags' = suspended[p].mags
    /\ conversions' = suspended[p].conversions
    /\ backendCalls' = suspended[p].backendCalls
    /\ backendArgs' = suspended[p].backendArgs
    /\ raw' = suspended[p].raw
    /\ result' = suspended[p].result
    /\ error' = suspended[p].error
    /\ UNCHANGED << ranking, registration >>

\* the scheduler suspends the running invocation and resumes invocation p
Switch(p) ==
    /\ p \in DOMAIN suspended
    /\ suspended[p].pc \notin Terminal
    /\ running' = p
    /\ suspended' = [ q \in (DOMAIN suspended \ { p }) \cup { running } |->
                         IF q = running THEN Context ELSE suspended[q] ]
    /\ pc' = suspended[p].pc
    /\ opName' = suspended[p].opName
    /\ operands' = suspended[p].operands
    /\ target' = suspended[p].target
    /\ tags' = suspended[p].tags
    /\ spec' = suspended[p].spec
    /\ refUnit' = suspended[p].refUnit
    /\ argUnits' = suspended[p].argUnits
    /\ argIdx' = suspended[p].argIdx
    /\ mags' = suspended[p].mags
    /\ conversions' = suspended[p].conversions
    /\ backendCalls' = suspended[p].backendCalls
    /\ backendArgs' = suspended[p].backendArgs
    /\ raw' = suspended[p].raw
    /\ result' = suspended[p].result
    /\ error' = suspended[p].error
    /\ UNCHANGED << ranking, registration >>

ConcNext ==
    \/ ArbitrateStep
    \/ ResolveSpec
    \/ ConvertArg
    \/ Compute
    \/ WrapStep
    \/ ConvertToStep
    \/ \E p \in 1..MaxInvocations : Switch(p)

ConcSpec == ConcInit /\ [][ConcNext]_vars

\* a synchronous invocation always takes its next step
FairSpec == Spec /\ WF_vars(Next)

-----------------------------------------------------------------------------
(* dispatch as a function of (operation name, operands): the outcome the   *)
(* invocation above ends in.                                               *)

Outcome(status, res, err) == [ status |-> status, result |-> res, error |-> err ]

RECURSIVE RunArgs(_, _, _, _, _, _)
RunArgs(name, ops, i, ref, ms, us) ==
    IF i > Len(ops)
    THEN Outcome("Done", Output(SpecTable[name], Backend(name, ms), ref, us), NoError)
    ELSE LET r == ProcessArg(RoleOf(SpecTable[name], i), ops[i], ref, i = 1)
         IN  IF r.ok
             THEN RunArgs(name, ops, i + 1, r.ref, Append(ms, r.mag), Append(us, r.unit))
             ELSE Outcome("Failed", NoResult,
                          IncompatibleDimensions(name, ErrorIndex(i), r.fromUnit, r.toUnit))

dispatch(name, ops) ==
    IF Arbitrate(ops) = "defer" THEN Outcome("Deferred", DeferSignal, NoError)
    ELSE IF name \notin DOMAIN SpecTable
         THEN Outcome("Failed", NoResult, UnsupportedOperation(name))
         ELSE RunArgs(name, ops, 1, Dimensionless, << >>, << >>)

-----------------------------------------------------------------------------
(* Vocabulary of the properties.                                           *)

IsDispatch == opName # "convertTo" /\ opName \notin MethodNames

HasUpcast == \E i \in 1..Len(operands) : operands[i].type \in UpcastTypes

\* the unit an operand carries: its own, or none (dimensionless) when bare
UnitOf(o) == IF o.type = "Quantity" THEN o.unit ELSE Dimensionless

SigOf(o) == dimensionalSignature(UnitOf(o))

\* positions of the arguments that must match the primary and do not
Mismatched ==
    { i \in 2..Len(operands) :
        /\ opName \in HandledNames
        /\ RoleOf(SpecTable[opName], i) = "matched-to-primary"
        /\ operands[i].type \notin UpcastTypes
        /\ operands[1].type \notin UpcastTypes
        /\ SigOf(operands[i]) # SigOf(operands[1]) }

FirstMismatched == CHOOSE i \in Mismatched : \A j \in Mismatched : i <= j

-----------------------------------------------------------------------------
(* C1 (as stated): dispatching an operation name with no Specification     *)
(* entry always ends in the failure UnsupportedOperation, and the backend  *)
(* is never invoked in that invocation.                                    *)
C1_UnknownNameAlwaysFails ==
    (IsDispatch /\ opName \notin HandledNames) =>
        /\ backendCalls = 0
        /\ backendArgs = << >>
        /\ result.kind \notin { "Quantity", "bare" }
        /\ pc \in Terminal => (pc = "Failed" /\ error.type = "UnsupportedOperation")

(* C1 (amended): when no operand is of an upcast type, dispatching an      *)
(* operation name with no Specification entry ends in UnsupportedOperation;*)
(* in every invocation of such a name (deferred ones included) the backend *)
(* is never invoked and no value is returned.                              *)
C1_UnknownNameFailsWhenHandled ==
    (IsDispatch /\ opName \notin HandledNames) =>
        /\ backendCalls = 0
        /\ backendArgs = << >>
        /\ result.kind \notin { "Quantity", "bare" }
        /\ (pc \in Terminal /\ ~HasUpcast) =>
               (pc = "Failed" /\ error = UnsupportedOperation(opName))
        /\ (pc \in Terminal /\ HasUpcast) => (pc = "Deferred" /\ error = NoError)

C1_Witness ==
    /\ pc = "Failed"
    /\ opName = "histogram"
    /\ error.type = "UnsupportedOperation"
    /\ Len(operands) = 2
    /\ operands[1].type = "Quantity"
    /\ operands[2].type = "ndarray"
    /\ backendCalls = 0

-----------------------------------------------------------------------------
(* C2: whenever some operand is of an upcast type, dispatch returns        *)
(* DeferSignal, and no conversion, no argument processing and no backend   *)
(* computation happens, whatever the other operands are.                   *)
C2_DeferOnUpcast ==
    (IsDispatch /\ HasUpcast) =>
        /\ pc \in { "Arbitrating", "Deferred" }
        /\ conversions = 0
        /\ backendCalls = 0
        /\ mags = << >>
        /\ argIdx = 1
        /\ error = NoError
        /\ pc \in Terminal => result = DeferSignal

C2_Witness ==
    /\ pc = "Deferred"
    /\ result = DeferSignal
    /\ opName = "add"
    /\ operands[1].type = "Quantity"
    /\ operands[2].type = "DataArray"
    /\ conversions = 0
    /\ backendCalls = 0

-----------------------------------------------------------------------------
(* C3: a forced-dimensionless-input operation on a Quantity fails with     *)
(* IncompatibleDimensions exactly when the unit's signature is nonzero     *)
(* (the backend is then not invoked) and succeeds when it is all-zero.     *)
C3_ForcedDimensionless ==
    ( /\ IsDispatch
      /\ opName \in HandledNames
      /\ pc \in Terminal
      /\ Len(operands) = 1
      /\ operands[1].type = "Quantity"
      /\ SpecTable[opName].roles[1] = "forced-dimensionless-input" ) =>
        IF dimensionalSignature(operands[1].unit) # ZeroSignature
        THEN /\ pc = "Failed"
             /\ error.type = "IncompatibleDimensions"
             /\ error.fromUnit = operands[1].unit
             /\ backendCalls = 0
        ELSE /\ pc = "Done"
             /\ result.kind = "Quantity"
             /\ backendCalls = 1

C3_Witness ==
    /\ pc = "Failed"
    /\ opName = "exp"
    /\ operands[1].type = "Quantity"
    /\ operands[1].unit = U("centimeter")
    /\ error.type = "IncompatibleDimensions"

-----------------------------------------------------------------------------
\* a handled call of two arguments, the second of which must match the first
MatchedPair ==
    /\ IsDispatch
    /\ opName \in HandledNames
    /\ Len(operands) = 2
    /\ RoleOf(SpecTable[opName], 2) = "matched-to-primary"
    /\ pc = "Done"

\* the magnitude of operand i expressed in the unit of the first operand
InPrimaryUnit(i) ==
    [ k \in 1..Len(operands[i].mag) |->
        RDiv(RMul(operands[i].mag[k], Factor(UnitOf(operands[i]))),
             Factor(UnitOf(operands[1]))) ]

\* the backend was given the first magnitude as it is (an operation that works
\* in place has overwritten it since) and the second converted to the unit of
\* the first (factor 1/100 from centimeter to meter)
SecondConverted ==
    /\ opName \notin InPlaceNames => backendArgs[1] = operands[1].mag
    /\ backendArgs[2] = InPrimaryUnit(2)
    /\ (UnitOf(operands[1]) = U("meter") /\ UnitOf(operands[2]) = U("centimeter")) =>
           backendArgs[2] = [ i \in 1..Len(operands[2].mag) |->
                                RMul(operands[2].mag[i], Ratio(1, 100)) ]

\* hypot([3, 4] m, [400, 300] cm) is [5, 5] m, computed on (3,4), (4,3)
HypotExample ==
    ( /\ opName = "hypot"
      /\ operands[1].mag = << R(3), R(4) >>
      /\ UnitOf(operands[1]) = U("meter")
      /\ operands[2].mag = << R(400), R(300) >>
      /\ UnitOf(operands[2]) = U("centimeter") ) =>
        /\ backendArgs = << << R(3), R(4) >>, << R(4), R(3) >> >>
        /\ result = Quantity(<< R(5), R(5) >>, U("meter"))

(* C4 (as stated): in every two-argument operation whose second argument   *)
(* is matched-to-primary, the backend is invoked with the second magnitude *)
(* converted to the first's unit, and the result carries the first's unit. *)
C4_MatchedResultInPrimaryUnit ==
    MatchedPair =>
        /\ SecondConverted
        /\ result.kind = "Quantity"
        /\ result.unit = UnitOf(operands[1])
        /\ HypotExample

(* C4 (amended): in every two-argument operation whose second argument is  *)
(* matched-to-primary, the backend is invoked with the first magnitude     *)
(* unchanged and the second converted to the first's unit (factor 1/100    *)
(* from centimeter to meter); the result carries the first's unit when the *)
(* output rule is same-as-primary, and is a bare boolean array with no     *)
(* unit when the operation is a comparison; copyto has no result and       *)
(* leaves the converted magnitude in its first argument;                   *)
(* hypot([3, 4] m, [400, 300] cm) is [5, 5] m, computed on (3,4), (4,3).   *)
C4_MatchedToPrimary ==
    MatchedPair =>
        /\ SecondConverted
        /\ CASE opName \in ComparisonNames ->
                    /\ result.kind = "bare"
                    /\ "unit" \notin DOMAIN result
             [] opName \in InPlaceNames ->
                    /\ result = NoResult
                    /\ operands[1].mag = backendArgs[2]
                    /\ operands[1].unit = refUnit
             [] OTHER ->
                    /\ SpecTable[opName].out = "same-as-primary"
                    /\ result.kind = "Quantity"
                    /\ result.unit = UnitOf(operands[1])
        /\ HypotExample

C4_Witness ==
    /\ pc = "Done"
    /\ opName = "hypot"
    /\ operands[1].type = "Quantity"
    /\ operands[1].mag = << R(3), R(4) >>
    /\ operands[1].unit = U("meter")
    /\ operands[2].type = "Quantity"
    /\ operands[2].mag = << R(400), R(300) >>
    /\ operands[2].unit = U("centimeter")
    /\ result = Quantity(<< R(5), R(5) >>, U("meter"))

-----------------------------------------------------------------------------
(* C5 (as stated): whenever an argument that must match the primary has a  *)
(* unit whose signature differs from the primary's, dispatch fails with    *)
(* IncompatibleDimensions carrying both units and both signatures, and the *)
(* backend is not invoked.                                                 *)
C5_MismatchAlwaysFails ==
    (IsDispatch /\ Mismatched # {}) =>
        /\ backendCalls = 0
        /\ pc \in Terminal =>
              /\ pc = "Failed"
              /\ error.type = "IncompatibleDimensions"
              /\ error.fromUnit = UnitOf(operands[FirstMismatched])
              /\ error.toUnit = UnitOf(operands[1])
              /\ error.fromSig = SigOf(operands[FirstMismatched])
              /\ error.toSig = SigOf(operands[1])

(* C5 (amended): when no operand is of an upcast type and an argument that *)
(* must match the primary has a unit whose signature differs from the      *)
(* primary's, dispatch fails with IncompatibleDimensions carrying both     *)
(* units and both signatures; the backend is not invoked (nor is it when   *)
(* an upcast operand makes the invocation defer).                          *)
C5_MismatchFailsWhenHandled ==
    (IsDispatch /\ Mismatched # {}) =>
        /\ backendCalls = 0
        /\ pc \notin { "Computing", "Wrapping", "Done" }
        /\ (pc \in Terminal /\ ~HasUpcast) =>
              /\ pc = "Failed"
              /\ error.type = "IncompatibleDimensions"
              /\ error.fromUnit = UnitOf(operands[FirstMismatched])
              /\ error.toUnit = UnitOf(operands[1])
              /\ error.fromSig = SigOf(operands[FirstMismatched])
              /\ error.toSig = SigOf(operands[1])
              /\ error.fromSig # error.toSig

C5_Witness ==
    /\ pc = "Failed"
    /\ opName = "hypot"
    /\ operands[1].type = "Quantity"
    /\ operands[2].type = "Quantity"
    /\ error.type = "IncompatibleDimensions"
    /\ error.fromUnit = U("second")
    /\ error.toUnit = U("meter")
    /\ error.fromSig = << 0, 0, 1 >>
    /\ error.toSig = << 1, 0, 0 >>
    /\ backendCalls = 0

-----------------------------------------------------------------------------
(* C6: round trip.  Converting a Quantity to a unit of the same signature  *)
(* and converting the result back yields the original unit and exactly the *)
(* original magnitude.                                                     *)
C6_RoundTrip ==
    (opName = "convertTo" /\ pc = "Done") =>
        LET back == convertTo(result, operands[1].unit)
        IN  /\ back.ok
            /\ back.value.unit = operands[1].unit
            /\ back.value.mag = operands[1].mag

C6_Witness ==
    /\ opName = "convertTo"
    /\ pc = "Done"
    /\ operands[1].unit = U("meter")
    /\ operands[1].mag = << R(3), R(4) >>
    /\ target = U("kilometer")
    /\ result = Quantity(<< Ratio(3, 1000), Ratio(1, 250) >>, U("kilometer"))

-----------------------------------------------------------------------------
(* C7: convertTo fails with IncompatibleDimensions, naming both units and  *)
(* both signatures, exactly when the current and the target unit have      *)
(* different signatures; otherwise it returns a Quantity in the target     *)
(* unit.                                                                   *)
C7_ConvertToGate ==
    (opName = "convertTo" /\ pc \in Terminal) =>
        IF dimensionalSignature(operands[1].unit) # dimensionalSignature(target)
        THEN /\ pc = "Failed"
             /\ result = NoResult
             /\ error.type = "IncompatibleDimensions"
             /\ error.fromUnit = operands[1].unit
             /\ error.toUnit = target
             /\ error.fromSig = dimensionalSignature(operands[1].unit)
             /\ error.toSig = dimensionalSignature(target)
        ELSE /\ pc = "Done"
             /\ error = NoError
             /\ result.kind = "Quantity"
             /\ result.unit = target

C7_Witness ==
    /\ opName = "convertTo"
    /\ pc = "Failed"
    /\ operands[1].unit = U("meter")
    /\ target = U("joule")
    /\ error.type = "IncompatibleDimensions"
    /\ error.fromSig = << 1, 0, 0 >>
    /\ error.toSig = << 2, 1, -2 >>

-----------------------------------------------------------------------------
(* C8: the result of multiply has the sum of the operands' exponent        *)
(* vectors as its dimensional signature, the result of divide their        *)
(* difference, whatever the magnitudes and the payload types.              *)
SigAdd(a, b, k) == [ d \in BaseDims |-> a[d] + k * b[d] ]

C8_DerivedByMultiplication ==
    (IsDispatch /\ opName \in { "multiply", "divide" } /\ pc \in Terminal /\ ~HasUpcast) =>
        /\ pc = "Done"
        /\ result.kind = "Quantity"
        /\ dimensionality(result) =
              SigAdd(SigOf(operands[1]), SigOf(operands[2]),
                     IF opName = "multiply" THEN 1 ELSE -1)

C8_Witness ==
    /\ pc = "Done"
    /\ opName = "multiply"
    /\ operands[1].type = "Quantity"
    /\ operands[1].unit = U("meter")
    /\ operands[1].payload = "COO"
    /\ operands[2].type = "Quantity"
    /\ operands[2].unit = U("second")
    /\ operands[2].payload = "ndarray"
    /\ dimensionality(result) = << 1, 0, 1 >>

-----------------------------------------------------------------------------
(* C9 (as stated): a variadic operation in which some element is           *)
(* incompatible with the first fails with IncompatibleDimensions naming    *)
(* the 0-based index of the first incompatible element.                    *)
C9_VariadicMismatchAlwaysIndexed ==
    (IsDispatch /\ opName = "stack" /\ pc \in Terminal /\ Mismatched # {}) =>
        /\ pc = "Failed"
        /\ error.type = "IncompatibleDimensions"
        /\ error.index = FirstMismatched - 1

(* C9 (amended): when no element is of an upcast type, a variadic          *)
(* operation takes the first element's unit as primary and converts every  *)
(* later element to it; if some element is incompatible it fails with      *)
(* IncompatibleDimensions naming the 0-based index of the first            *)
(* incompatible element.                                                   *)
C9_VariadicMismatchIndexed ==
    (IsDispatch /\ opName = "stack" /\ pc \in Terminal /\ ~HasUpcast) =>
        IF Mismatched # {}
        THEN /\ pc = "Failed"
             /\ error.type = "IncompatibleDimensions"
             /\ error.index = FirstMismatched - 1
             /\ error.fromUnit = UnitOf(operands[FirstMismatched])
             /\ backendCalls = 0
        ELSE /\ pc = "Done"
             /\ refUnit = UnitOf(operands[1])
             /\ result.unit = UnitOf(operands[1])
             /\ Len(backendArgs) = Len(operands)
             /\ \A i \in 1..Len(operands) :
                    backendArgs[i] = [ k \in 1..Len(operands[i].mag) |->
                        RDiv(RMul(operands[i].mag[k], Factor(UnitOf(operands[i]))),
                             Factor(UnitOf(operands[1]))) ]

C9_Witness ==
    /\ pc = "Failed"
    /\ opName = "stack"
    /\ Len(operands) = 3
    /\ \A i \in 1..3 : operands[i].type = "Quantity"
    /\ operands[1].unit = U("meter")
    /\ operands[2].unit = U("centimeter")
    /\ operands[3].unit = U("second")
    /\ error.type = "IncompatibleDimensions"
    /\ error.index = 2

-----------------------------------------------------------------------------
(* C10: in handle mode an operand that is neither a Quantity nor of an     *)
(* upcast type is treated exactly as a Quantity with the dimensionless     *)
(* unit: the invocation ends as the same invocation with every such        *)
(* operand replaced by that dimensionless Quantity ends, so a bare operand *)
(* that must match a primary of nonzero signature makes dispatch fail.     *)
AsQuantity(o) ==
    IF o.type = "Quantity" \/ o.type \in UpcastTypes THEN o
    ELSE [ type |-> "Quantity", payload |-> o.payload, mag |-> o.mag, unit |-> Dimensionless ]

IsBare(o) == o.type # "Quantity" /\ o.type \notin UpcastTypes

C10_BareIsDimensionless ==
    (IsDispatch /\ ~HasUpcast /\ pc \in Terminal) =>
        /\ Outcome(pc, result, error) =
              dispatch(opName, [ i \in 1..Len(operands) |-> AsQuantity(operands[i]) ])
        /\ (\E i \in Mismatched : IsBare(operands[i])) =>
              (pc = "Failed" /\ error.type = "IncompatibleDimensions")

C10_Witness ==
    /\ pc = "Failed"
    /\ opName = "hypot"
    /\ operands[1].type = "Quantity"
    /\ operands[1].unit = U("meter")
    /\ operands[2].type = "ndarray"
    /\ error.type = "IncompatibleDimensions"
    /\ error.fromUnit = Dimensionless
    /\ error.toUnit = U("meter")
    /\ error.index = 1

-----------------------------------------------------------------------------
(* C11: an angle-dimensionless-conversion argument must have a unit        *)
(* convertible to the angle unit (radian); its magnitude reaches the       *)
(* backend converted to radians and the result is a dimensionless          *)
(* Quantity; a unit of any other dimensionality makes dispatch fail with   *)
(* IncompatibleDimensions, the backend not being invoked.                  *)
C11_AngleConversion ==
    ( /\ IsDispatch
      /\ opName \in HandledNames
      /\ pc \in Terminal
      /\ ~HasUpcast
      /\ Len(operands) = 1
      /\ SpecTable[opName].roles[1] = "angle-dimensionless-conversion" ) =>
        IF SigOf(operands[1]) = dimensionalSignature(U("radian"))
        THEN /\ pc = "Done"
             /\ backendCalls = 1
             /\ backendArgs =
                   << [ k \in 1..Len(operands[1].mag) |->
                          RDiv(RMul(operands[1].mag[k], Factor(UnitOf(operands[1]))),
                               Factor(U("radian"))) ] >>
             /\ result.kind = "Quantity"
             /\ result.unit = Dimensionless
        ELSE /\ pc = "Failed"
             /\ error.type = "IncompatibleDimensions"
             /\ error.fromUnit = UnitOf(operands[1])
             /\ error.toUnit = U("radian")
             /\ backendCalls = 0

C11_Witness ==
    /\ pc = "Done"
    /\ opName = "sin"
    /\ operands[1].type = "Quantity"
    /\ operands[1].unit = U("degree")
    /\ operands[1].mag = << R(3), R(4) >>
    /\ backendArgs = << << << 1, 60, 1, 1 >>, << 1, 45, 1, 1 >> >> >>
    /\ result.unit = Dimensionless

-----------------------------------------------------------------------------
\* the operations that answer a question about their arguments
PredicateOperations == ComparisonNames \cup MatchedPredicateNames \cup PredicateNames

IsBooleans(v) == \A i \in 1..Len(v) : v[i] \in BOOLEAN

HasDefinedUnit(r) ==
    /\ r.kind = "Quantity"
    /\ "unit" \in DOMAIN r
    /\ DOMAIN r.unit = UnitNames
    /\ \A n \in UnitNames : r.unit[n] \in Int

-----------------------------------------------------------------------------
(* C13: in every dispatch invocation the backend is invoked at most once,  *)
(* and only after arbitration returned handle, the lookup succeeded and    *)
(* every argument was converted and checked successfully; an invocation    *)
(* that fails has never been in the Computing stage: it fails out of       *)
(* lookup or conversion, with no backend call and nothing returned.        *)
AllArgsAccepted ==
    /\ Arbitrate(operands) = "handle"
    /\ opName \in HandledNames
    /\ spec = SpecTable[opName]
    /\ Len(mags) = Len(operands)
    /\ argIdx = Len(operands) + 1
    /\ Mismatched = {}
    /\ error = NoError

C13_BackendOnlyAfterChecks ==
    /\ [](IsDispatch =>
            /\ backendCalls \in { 0, 1 }
            /\ pc \in { "Computing", "Wrapping", "Done" } => AllArgsAccepted
            /\ backendCalls = 1 => (AllArgsAccepted /\ backendArgs = mags)
            /\ pc = "Failed" =>
                  /\ backendCalls = 0
                  /\ backendArgs = << >>
                  /\ raw = << >>
                  /\ result = NoResult
                  /\ error.type \in { "UnsupportedOperation", "IncompatibleDimensions" })
    /\ [][ /\ pc' = "Failed" => pc \in { "ResolvingSpec", "Converting", "ConvertTo",
                                         "MethodCall" }
           /\ pc = "Computing" => (pc' = "Wrapping" /\ backendCalls' = backendCalls + 1)
           /\ pc # "Computing" => backendCalls' = backendCalls ]_vars

C13_Witness ==
    /\ pc = "Failed"
    /\ opName = "stack"
    /\ Len(operands) = 3
    /\ argIdx = 3
    /\ Len(mags) = 2
    /\ conversions = 1
    /\ error.type = "IncompatibleDimensions"
    /\ backendCalls = 0

-----------------------------------------------------------------------------
\* position of a stage in the order the stages are passed through
StageRank(stage) ==
    CASE stage = "Arbitrating"   -> 1
      [] stage = "ResolvingSpec" -> 2
      [] stage = "Converting"    -> 3
      [] stage = "ConvertTo"     -> 3
      [] stage = "MethodCall"    -> 3
      [] stage = "Computing"     -> 4
      [] stage = "Wrapping"      -> 5
      [] stage \in Terminal      -> 6

\* a step moves to a later stage, or to the next argument within Converting
Advances ==
    \/ StageRank(pc') > StageRank(pc)
    \/ pc = "Converting" /\ pc' = "Converting" /\ argIdx' = argIdx + 1

(* C14 (as stated): an invocation stops only with a returned result or     *)
(* with a propagated failure.                                              *)
C14_EndsInResultOrFailure ==
    (~ENABLED Next) => pc \in { "Done", "Failed" }

(* C14 (amended): every invocation terminates, in a returned result        *)
(* (wrapped, or bare for a predicate, or none for an operation that works  *)
(* in place), in a propagated failure, or in the DeferSignal returned when *)
(* an operand is of an upcast type; every step moves forward, none returns *)
(* to an earlier stage.                                                    *)
C14_Terminates ==
    /\ <>(pc \in Terminal)
    /\ []((~ENABLED Next) =>
            \/ pc = "Done" /\ result.kind \in { "Quantity", "bare" } /\ error = NoError
            \/ /\ pc = "Done"
               /\ opName \in InPlaceNames \cup MethodNames
               /\ result = NoResult
               /\ error = NoError
            \/ pc = "Failed" /\ error # NoError /\ result = NoResult
            \/ pc = "Deferred" /\ result = DeferSignal /\ error = NoError /\ HasUpcast)
    /\ [][Advances]_vars

C14_Witness ==
    /\ ~ENABLED Next
    /\ pc = "Deferred"
    /\ result = DeferSignal
    /\ opName = "hypot"
    /\ operands[1].type = "Quantity"
    /\ operands[2].type = "DataArray"

-----------------------------------------------------------------------------
\* the outcome of running invocation c alone: a function of its inputs only
AloneOutcome(c) ==
    IF c.opName = "convertTo"
    THEN IF Compatible(Normalize(c.operands[1]).unit, c.target)
         THEN Outcome("Done", convertTo(Normalize(c.operands[1]), c.target).value, NoError)
         ELSE Outcome("Failed", NoResult,
                      IncompatibleDimensions(c.opName, 0, Normalize(c.operands[1]).unit,
                                             c.target))
    ELSE dispatch(c.opName, c.operands)

\* the state of every invocation in flight, running or suspended
Contexts ==
    [ q \in DOMAIN suspended \cup { running } |->
        IF q = running THEN Context ELSE suspended[q] ]

(* C15: with the configuration frozen, every invocation of an interleaved  *)
(* run ends in the outcome that its operation name and operands determine  *)
(* when it runs alone; a step of the running invocation changes no other   *)
(* invocation's state, a switch of invocation changes no invocation's      *)
(* state, and no step changes the configuration or an invocation's inputs. *)
C15_InterleavingYieldsAloneOutcome ==
    /\ [](\A q \in DOMAIN Contexts :
            Contexts[q].pc \in Terminal =>
                Outcome(Contexts[q].pc, Contexts[q].result, Contexts[q].error)
                    = AloneOutcome(Contexts[q]))
    /\ [][ /\ DOMAIN Contexts' = DOMAIN Contexts
           /\ \A q \in DOMAIN Contexts :
                 /\ (q # running \/ running' # running) => Contexts'[q] = Contexts[q]
                 /\ Contexts'[q].opName = Contexts[q].opName
                 /\ Contexts'[q].operands = Contexts[q].operands
                 /\ Contexts'[q].target = Contexts[q].target
           /\ ranking' = ranking ]_vars

C15_Witness ==
    /\ running = 2
    /\ pc = "Failed"
    /\ opName = "add"
    /\ error.type = "IncompatibleDimensions"
    /\ suspended[1].pc = "Done"
    /\ suspended[1].opName = "hypot"
    /\ suspended[1].conversions = 1
    /\ suspended[1].result = Quantity(<< R(5), R(5) >>, U("meter"))

-----------------------------------------------------------------------------
IsStrictPartialOrder(rel) ==
    /\ \A e \in rel : e[1] # e[2]
    /\ \A e \in rel : << e[2], e[1] >> \notin rel
    /\ \A e \in rel, f \in rel : e[2] = f[1] => << e[1], f[2] >> \in rel

(* C16: in every configured state "outranks" is a strict partial order;    *)
(* a registration changes the ranking only by adding the registered pair,  *)
(* and only when the result is still acyclic; a rejected registration      *)
(* leaves the ranking as it was; the documented hierarchy is itself a      *)
(* strict partial order.                                                   *)
C16_RankingAcyclic ==
    /\ [](IsStrictPartialOrder(Outranks(ranking)))
    /\ [](IsStrictPartialOrder(Outranks(HierarchyEdges)))
    /\ [](registration = "rejected" =>
            \E a \in RankedTypes, b \in RankedTypes :
                ~IsStrictPartialOrder(Outranks(ranking \cup { << a, b >> })))
    /\ [][ /\ ranking \subseteq ranking'
           /\ registration' = "rejected" => ranking' = ranking
           /\ registration' = "accepted" =>
                 \E a \in RankedTypes, b \in RankedTypes :
                     ranking' = ranking \cup { << a, b >> } ]_vars

C16_Witness ==
    /\ registration = "rejected"
    /\ ranking = { e \in HierarchyEdges : e[1] \in RankedTypes /\ e[2] \in RankedTypes }

-----------------------------------------------------------------------------
\* the operations that write into the Quantity they are given
InPlaceOperations == InPlaceNames \cup MethodNames

(* C17: convertTo and the dispatch of an operation that does not work in   *)
(* place leave every operand as it was passed, whether the call succeeds,  *)
(* defers or fails; a converted magnitude or unit appears only in the      *)
(* returned Quantity.                                                      *)
C17_OperandsUnchanged ==
    /\ [][opName \notin InPlaceOperations => operands' = operands]_vars
    /\ []((opName = "convertTo" /\ pc = "Done") =>
            /\ result.unit = target
            /\ result.mag = convert(operands[1].mag, operands[1].unit, target)
            /\ operands[1] \in Quantities)
    /\ []((IsDispatch /\ opName \notin InPlaceOperations) =>
             \A i \in 1..Len(operands) : operands[i] \in OperandPool(opName))

C17_Witness ==
    /\ opName = "convertTo"
    /\ pc = "Done"
    /\ operands[1].unit = U("meter")
    /\ operands[1].mag = << R(3), R(4) >>
    /\ result.unit = U("kilometer")
    /\ result.mag = << Ratio(3, 1000), Ratio(1, 250) >>

-----------------------------------------------------------------------------
(* C18: when no operand is of an upcast type and some operand is a         *)
(* Quantity, the Arbiter answers handle and the invocation never returns   *)
(* DeferSignal: it ends in a wrapped or bare result (none for copyto,      *)
(* which has no output), or in one of the failures; DeferSignal is         *)
(* returned only when some operand is of an upcast type.                   *)
C18_HandleWithoutUpcast ==
    IsDispatch =>
        /\ (~HasUpcast /\ \E i \in 1..Len(operands) : operands[i].type = "Quantity") =>
              /\ Arbitrate(operands) = "handle"
              /\ pc # "Deferred"
              /\ result # DeferSignal
              /\ pc \in Terminal =>
                    \/ pc = "Done" /\ result.kind \in { "Quantity", "bare" }
                    \/ pc = "Done" /\ opName \in InPlaceNames /\ result = NoResult
                    \/ pc = "Failed" /\ error.type \in { "UnsupportedOperation",
                                                         "IncompatibleDimensions",
                                                         "UnsupportedPayload" }
        /\ (result = DeferSignal \/ pc = "Deferred") => HasUpcast

C18_Witness ==
    /\ opName = "add"
    /\ pc = "Done"
    /\ operands[1].type = "Quantity"
    /\ operands[1].unit = Dimensionless
    /\ operands[2].type = "ndarray"
    /\ result.kind = "Quantity"

-----------------------------------------------------------------------------
(* C19: arbitration comes before every failure check: with an operand of   *)
(* an upcast type the invocation returns DeferSignal and raises nothing,   *)
(* even when the name has no Specification or the Quantities are           *)
(* incompatible; a failure is raised only in an invocation the Arbiter     *)
(* handles; a name with no Specification fails with UnsupportedOperation   *)
(* even when its operands are dimensionally incompatible.                  *)
C19_ArbitrationFirst ==
    /\ [](IsDispatch =>
            /\ pc = "Arbitrating" => (error = NoError /\ spec = NoSpec /\ conversions = 0)
            /\ (HasUpcast /\ pc \in Terminal) =>
                  (pc = "Deferred" /\ result = DeferSignal /\ error = NoError)
            /\ HasUpcast => (spec = NoSpec /\ conversions = 0 /\ error = NoError)
            /\ error # NoError => (Arbitrate(operands) = "handle" /\ ~HasUpcast)
            /\ (opName \notin HandledNames /\ pc = "Failed") =>
                  (error.type = "UnsupportedOperation" /\ conversions = 0)
            /\ error.type = "IncompatibleDimensions" => opName \in HandledNames)
    /\ [][pc' \in { "Failed", "Deferred" } =>
             \/ pc = "Arbitrating" /\ pc' = "Deferred"
             \/ /\ pc \in { "ResolvingSpec", "Converting", "ConvertTo", "MethodCall" }
                /\ pc' = "Failed" ]_vars

C19_Witness ==
    /\ opName = "histogram"
    /\ pc = "Deferred"
    /\ Len(operands) = 2
    /\ operands[1].type = "Quantity"
    /\ operands[1].unit = U("meter")
    /\ operands[2].type = "DataArray"
    /\ error = NoError

====
